---- MODULE Spec2Model ----
(***************************************************************************)
(* Model of src/mlbGet.py: the batch job that builds the MLB rest-day      *)
(* panel.  Tables (pandas DataFrames) are sequences of records, so row     *)
(* order and repeated rows are part of the state.  The four pybaseball     *)
(* providers and the injury CSV are the environment: every call draws its  *)
(* answer (a table, or an exception) from a finite set.                    *)
(***************************************************************************)
EXTENDS Integers, Sequences, FiniteSets, TLC

VARIABLES pc, k, sched_list, sched, roster_list, roster, logs_list, games,
          panel, exit_code, outfile, writes, trace,
          player_name, lookup, slug

vars == <<pc, k, sched_list, sched, roster_list, roster, logs_list, games,
          panel, exit_code, outfile, writes, trace,
          player_name, lookup, slug>>

-----------------------------------------------------------------------------
(* Bounds of the model *)

\* calendar dates are the day numbers 1..MaxDate
MaxDate == 2
\* rows of the collected game logs in the panel-stage specification
MaxGameRows == 2
\* candidate rows of one playerid_lookup answer
MaxCands == 2
\* seasons (mlb_played_first / mlb_played_last) are 1..MaxSeason
MaxSeason == 2
\* rows of one schedule table in the panel-stage specification
MaxSchedRows == 2
\* rows of the injury file in the panel-stage specification
MaxInjRows == 1

Dates == 1..MaxDate
Seasons == 1..MaxSeason

-----------------------------------------------------------------------------
(* Encodings *)

\* the missing value of pandas (NaN, NaT, None)
NaN == -1
\* the character '*' of a schedule Date string
Star == 0
\* any character that makes a date string unparseable
Junk == -2
\* a missing key_bbref of a lookup row
NoKey == "<NA>"
\* exit_code while the process is running
Running == -1

\* no batting table of the model has more rows than this
TOP_N_BATTERS_PER_TEAM == 12

\* the fixed team list, cut to its first two codes
MLB_TEAMS == <<"ARI", "ATL">>

\* alphabetical order of the strings that are sorted somewhere in the code
StrOrder == <<"ARI", "ATL", "doej01", "roeal01">>
Rank(str) == CHOOSE i \in 1..Len(StrOrder) : StrOrder[i] = str

Min(S) == CHOOSE x \in S : \A y \in S : x <= y

-----------------------------------------------------------------------------
(* pandas operations on tables *)

\* the rows of s at the indices of I, in order
SelectIdx(s, I) ==
  LET F[i \in 0..Len(s)] ==
        IF i = 0 THEN <<>>
        ELSE IF i \in I THEN Append(F[i-1], s[i]) ELSE F[i-1]
  IN F[Len(s)]

\* pd.concat(list, ignore_index=True)
Concat(list) ==
  LET F[i \in 0..Len(list)] == IF i = 0 THEN <<>> ELSE F[i-1] \o list[i]
  IN F[Len(list)]

\* df[[cols]]
Project(s, cols) == [i \in 1..Len(s) |-> [c \in cols |-> s[i][c]]]

\* DataFrame.drop_duplicates(subset=...): keys[i] is the key of row i, and the
\* first row of every key is kept
DropDuplicatesBy(s, keys) ==
  SelectIdx(s, {i \in 1..Len(s) : \A j \in 1..(i-1) : keys[j] # keys[i]})

\* DataFrame.drop_duplicates()
DropDuplicates(s) == DropDuplicatesBy(s, s)

\* left.merge(right, on=on, how="left"), cols being the other columns of right:
\* left order is kept, a left row is repeated once per matching right row (in
\* right order), and gets NaN in cols when none matches
LeftMerge(left, right, on, cols) ==
  LET RowsFor(l) ==
        LET m == SelectSeq(right, LAMBDA r : \A c \in on : l[c] = r[c])
        IN IF m = <<>> THEN <<l @@ [c \in cols |-> NaN]>>
           ELSE [j \in 1..Len(m) |-> l @@ [c \in cols |-> m[j][c]]]
  IN Concat([i \in 1..Len(left) |-> RowsFor(left[i])])

\* a < b for two equally long tuples of integers, first column first
LexLess(a, b) ==
  \E p \in 1..Len(a) : a[p] < b[p] /\ \A q \in 1..(p-1) : a[q] = b[q]

\* DataFrame.sort_values on several columns: a stable ascending sort, keys[i]
\* being the tuple of sort columns of row i
SortValues(s, keys) ==
  LET Insert(t, x) ==
        LET later == {j \in 1..Len(t) : LexLess(keys[x], keys[t[j]])}
            p == IF later = {} THEN Len(t) + 1 ELSE Min(later)
        IN SubSeq(t, 1, p - 1) \o <<x>> \o SubSeq(t, p, Len(t))
      F[i \in 0..Len(s)] == IF i = 0 THEN <<>> ELSE Insert(F[i-1], i)
  IN [j \in 1..Len(s) |-> s[F[Len(s)][j]]]

\* the sort column of a descending sort, NaN last (the values are positive)
Descending(v) == IF v = NaN THEN 1 ELSE 0 - v

\* str.replace("*", "", regex=False)
StripStar(str) == SelectSeq(str, LAMBDA c : c # Star)

\* pd.to_datetime(errors="coerce"): a date string is one day number
ToDatetime(str) ==
  IF Len(str) = 1 /\ str[1] \in Dates THEN str[1] ELSE NaN

\* str.strip(): leading and trailing blanks removed
RECURSIVE Strip(_)
Strip(str) ==
  IF str = <<>> THEN <<>>
  ELSE IF Head(str) = " " THEN Strip(Tail(str))
  ELSE IF str[Len(str)] = " " THEN Strip(SubSeq(str, 1, Len(str) - 1))
  ELSE str

\* str.split(): the blank-separated tokens
Split(str) == SelectSeq(str, LAMBDA c : c # " ")

-----------------------------------------------------------------------------
(* The fetch functions.  A provider answer is a record: raised tells that  *)
(* the call (or the handling of a malformed table) threw, rows is the      *)
(* table it returned otherwise.                                            *)

Raise == [raised |-> TRUE, rows |-> <<>>]
Table(rows) == [raised |-> FALSE, rows |-> rows]

get_team_schedule(team_code, resp) ==
  IF resp.raised THEN <<>>
  ELSE LET parsed == [i \in 1..Len(resp.rows) |->
                        [game_date |-> ToDatetime(StripStar(resp.rows[i].Date)),
                         team |-> resp.rows[i].Tm,
                         team_code |-> team_code,
                         team_played |-> 1]]
       IN SelectSeq(parsed, LAMBDA r : r.game_date # NaN)

get_top_batters(team_code, resp, top_n) ==
  IF resp.raised THEN <<>>
  ELSE LET pos == SelectSeq(resp.rows, LAMBDA r : r.PA # NaN /\ r.PA > 0)
           named == [i \in 1..Len(pos) |->
                       [player_name |-> Strip(pos[i].Name), PA |-> pos[i].PA]]
           sorted == SortValues(named, [i \in 1..Len(named) |->
                                          <<Descending(named[i].PA)>>])
           top == SubSeq(sorted, 1, IF Len(sorted) < top_n THEN Len(sorted) ELSE top_n)
       IN [i \in 1..Len(top) |->
             [player_name |-> top[i].player_name, PA |-> top[i].PA,
              team_code |-> team_code]]

\* mutant of name_to_bbref_id: the candidates are not sorted
name_to_bbref_id_Unsorted(name, resp) ==
  LET keys == SelectSeq(resp.rows, LAMBDA r : r.key_bbref # NoKey)
  IN IF Len(Split(name)) < 2 THEN ""
     ELSE IF resp.raised THEN ""
     ELSE IF resp.rows = <<>> THEN ""
     ELSE IF keys = <<>> THEN "" ELSE keys[1].key_bbref

\* resp.hasSeasons: the lookup table carries the columns mlb_played_last and
\* mlb_played_first (the register has both or neither); NaN sorts last
name_to_bbref_id(name, resp) ==
  LET parts == Split(name)
      cands == IF resp.hasSeasons
               THEN SortValues(resp.rows,
                      [i \in 1..Len(resp.rows) |->
                         <<Descending(resp.rows[i].mlb_played_last),
                           Descending(resp.rows[i].mlb_played_first)>>])
               ELSE resp.rows
      keys == SelectSeq(cands, LAMBDA r : r.key_bbref # NoKey)
  IN IF Len(parts) < 2 THEN ""
     ELSE IF resp.raised THEN ""
     ELSE IF resp.rows = <<>> THEN ""
     ELSE IF keys = <<>> THEN "" ELSE keys[1].key_bbref

fetch_player_game_logs_bbref(bbref_id, resp) ==
  IF resp.raised THEN <<>>
  ELSE LET parsed == [i \in 1..Len(resp.rows) |->
                        [player_id_bbref |-> bbref_id,
                         game_date |-> ToDatetime(resp.rows[i].Date),
                         team |-> resp.rows[i].Tm,
                         opp |-> resp.rows[i].Opp,
                         appeared |-> 1,
                         PA |-> IF resp.hasPA THEN resp.rows[i].PA ELSE NaN]]
       IN DropDuplicates(SelectSeq(parsed, LAMBDA r : r.game_date # NaN))

attach_injuries(pnl, inj) ==
  LET parsed == [i \in 1..Len(inj) |->
                   [player_id_bbref |-> inj[i].player_id_bbref,
                    game_date |-> ToDatetime(inj[i].date),
                    on_IL |-> inj[i].on_IL]]
      dated == SelectSeq(parsed, LAMBDA r : r.game_date # NaN)
  IN LeftMerge(pnl, Project(dated, {"player_id_bbref", "game_date", "on_IL"}),
               {"player_id_bbref", "game_date"}, {"on_IL"})

-----------------------------------------------------------------------------
(* Step 5 of main(): the rest-day panel *)

\* games.groupby(["player_id_bbref","team"])["game_date"].min().reset_index():
\* one row per group, groups in key order
PlayerTeams(g) ==
  LET pairs == [i \in 1..Len(g) |->
                  [player_id_bbref |-> g[i].player_id_bbref, team |-> g[i].team]]
      groups == DropDuplicates(pairs)
  IN SortValues(groups, [i \in 1..Len(groups) |->
                           <<Rank(groups[i].player_id_bbref), Rank(groups[i].team)>>])

\* mutant of PlayerDates: the dropna after the merge is missing
PlayerDates_KeepUnmatched(g, sc) ==
  LeftMerge(PlayerTeams(g), Project(sc, {"game_date", "team", "team_played"}),
            {"team"}, {"game_date", "team_played"})

\* player_teams.merge(sched[["game_date","team","team_played"]], on="team",
\*                    how="left").dropna(subset=["game_date"])
PlayerDates(g, sc) ==
  LET merged == LeftMerge(PlayerTeams(g),
                          Project(sc, {"game_date", "team", "team_played"}),
                          {"team"}, {"game_date", "team_played"})
  IN SelectSeq(merged, LAMBDA r : r.game_date # NaN)

\* games[["player_id_bbref","game_date","appeared"]].drop_duplicates()
Appearances(g) ==
  DropDuplicates(Project(g, {"player_id_bbref", "game_date", "appeared"}))

\* mutant of WithAppeared: the merge is on player_id_bbref alone
WithAppeared_PlayerOnly(g, sc) ==
  LET m == LeftMerge(PlayerDates(g, sc),
                     DropDuplicates(Project(g, {"player_id_bbref", "appeared"})),
                     {"player_id_bbref"}, {"appeared"})
  IN [i \in 1..Len(m) |-> [m[i] EXCEPT !.appeared = IF @ = NaN THEN 0 ELSE @]]

\* the merge with the appearances and fillna(0)
WithAppeared(g, sc) ==
  LET m == LeftMerge(PlayerDates(g, sc), Appearances(g),
                     {"player_id_bbref", "game_date"}, {"appeared"})
  IN [i \in 1..Len(m) |-> [m[i] EXCEPT !.appeared = IF @ = NaN THEN 0 ELSE @]]

\* panel["rest_flag"] = ((team_played == 1) & (appeared == 0)).astype(int)
RestFlag(r) == IF r.team_played = 1 /\ r.appeared = 0 THEN 1 ELSE 0

InferRest(g, sc) ==
  LET p == WithAppeared(g, sc)
  IN [i \in 1..Len(p) |-> p[i] @@ [rest_flag |-> RestFlag(p[i])]]

\* mutant of ILOverride: the flag is not forced to 0
ILOverride_Keep(r) == r.rest_flag

\* the row's flag after panel.loc[panel["on_IL"] == 1, "rest_flag"] = 0
ILOverride(r) == IF r.on_IL = 1 THEN 0 ELSE r.rest_flag

\* lines 218-224; file.exists is INJURY_CSV and os.path.exists(INJURY_CSV)
MergeIL(pnl, file) ==
  IF file.exists
  THEN LET m == attach_injuries(pnl, file.rows)
           filled == [i \in 1..Len(m) |->
                        [m[i] EXCEPT !.on_IL = IF @ = NaN THEN 0 ELSE @]]
       IN [i \in 1..Len(filled) |->
             [filled[i] EXCEPT !.rest_flag = ILOverride(filled[i])]]
  ELSE [i \in 1..Len(pnl) |-> pnl[i] @@ [on_IL |-> 0]]

\* the index of the previous row of the same player, 0 when there is none
PrevInGroup(pnl, i) ==
  LET before == {j \in 1..(i-1) : pnl[j].player_id_bbref = pnl[i].player_id_bbref}
  IN IF before = {} THEN 0 ELSE CHOOSE j \in before : \A h \in before : h <= j

SortPanel(pnl) ==
  SortValues(pnl, [i \in 1..Len(pnl) |->
                    <<Rank(pnl[i].player_id_bbref), pnl[i].game_date>>])

\* groupby("player_id_bbref")["game_date"].diff().dt.days
DaysSince(pnl, i) ==
  IF PrevInGroup(pnl, i) = 0 THEN NaN
  ELSE pnl[i].game_date - pnl[PrevInGroup(pnl, i)].game_date

\* groupby("player_id_bbref")["rest_flag"].shift(1).fillna(0).astype(int)
PrevRest(pnl, i) ==
  IF PrevInGroup(pnl, i) = 0 THEN 0 ELSE pnl[PrevInGroup(pnl, i)].rest_flag

\* lines 227-229
FatigueCovariates(pnl) ==
  LET s == SortPanel(pnl)
  IN [i \in 1..Len(s) |->
        s[i] @@ [days_since_last_game |-> DaysSince(s, i),
                 prev_day_was_rest |-> PrevRest(s, i)]]

\* games[["player_id_bbref","game_date","PA"]].drop_duplicates()
Perf(g) == DropDuplicates(Project(g, {"player_id_bbref", "game_date", "PA"}))

\* lines 232-235 (fetch_player_game_logs_bbref always returns a PA column)
AttachPA(pnl, g) ==
  LET m == LeftMerge(pnl, Perf(g), {"player_id_bbref", "game_date"}, {"PA"})
  IN [i \in 1..Len(m) |-> [m[i] EXCEPT !.PA = IF @ = NaN THEN 0 ELSE @]]

-----------------------------------------------------------------------------
(* The environment of a whole run of main() *)

JaneDoe == <<"Jane", " ", "Doe">>
AlRoe == <<"Al", " ", "Roe">>
Cher == <<"Cher">>

SchedRow(code, date) == [Date |-> date, Tm |-> code]

\* schedule_and_record(code, YEAR) answers with the table of the asked team
SchedAnswers(code) ==
  { Raise,
    Table(<<>>),
    Table(<<SchedRow(code, <<1>>)>>),
    Table(<<SchedRow(code, <<1, Star>>), SchedRow(code, <<1>>)>>),
    Table(<<SchedRow(code, <<1>>), SchedRow(code, <<Junk>>), SchedRow(code, <<2>>)>>) }

BattingAnswers ==
  { Raise,
    Table(<<>>),
    Table(<<[Name |-> JaneDoe \o <<" ">>, PA |-> 2]>>),
    Table(<<[Name |-> Cher, PA |-> 1], [Name |-> JaneDoe, PA |-> 2],
            [Name |-> AlRoe, PA |-> NaN]>>),
    Table(<<[Name |-> AlRoe, PA |-> 1], [Name |-> AlRoe, PA |-> 0],
            [Name |-> AlRoe, PA |-> 2]>>) }

Cand(key, first, last) ==
  [key_bbref |-> key, mlb_played_first |-> first, mlb_played_last |-> last]
Lookup(rows) == [raised |-> FALSE, hasSeasons |-> TRUE, rows |-> rows]
LookupRaise == [raised |-> TRUE, hasSeasons |-> TRUE, rows |-> <<>>]

LookupAnswersMain ==
  { LookupRaise,
    Lookup(<<>>),
    Lookup(<<Cand("doej01", 1, 2)>>),
    Lookup(<<Cand("roeal01", 1, 1), Cand("doej01", 1, 2)>>),
    Lookup(<<Cand("roeal01", 1, 1)>>) }

LogRow(date, tm, opp, pa) == [Date |-> date, Tm |-> tm, Opp |-> opp, PA |-> pa]
Logs(hasPA, rows) == [raised |-> FALSE, hasPA |-> hasPA, rows |-> rows]
LogsRaise == [raised |-> TRUE, hasPA |-> TRUE, rows |-> <<>>]

LogAnswersMain ==
  { LogsRaise,
    Logs(TRUE, <<>>),
    Logs(TRUE, <<LogRow(<<1>>, "ARI", "ATL", 3)>>),
    Logs(FALSE, <<LogRow(<<2>>, "ATL", "ARI", 4), LogRow(<<Junk>>, "ATL", "ARI", 4)>>) }

InjuryFile(rows) == [exists |-> TRUE, rows |-> rows]
NoInjuryFile == [exists |-> FALSE, rows |-> <<>>]
InjRow(id, date, flag) == [player_id_bbref |-> id, date |-> date, on_IL |-> flag]

InjuryFilesMain ==
  { NoInjuryFile, InjuryFile(<<InjRow("doej01", <<2>>, 1)>>) }

-----------------------------------------------------------------------------
(* main() *)

Init ==
  /\ pc = "schedules"
  /\ k = 1
  /\ sched_list = <<>>
  /\ sched = <<>>
  /\ roster_list = <<>>
  /\ roster = <<>>
  /\ logs_list = <<>>
  /\ games = <<>>
  /\ panel = <<>>
  /\ exit_code = Running
  /\ outfile = <<>>
  /\ writes = 0
  /\ trace = <<>>
  /\ player_name = <<>>
  /\ lookup = LookupRaise
  /\ slug = ""

\* what one pass of a fetch loop leaves in the list: if not s.empty: append(s)
Collect(list, s) == IF s # <<>> THEN Append(list, s) ELSE list

Call(unit, resp, out) == [unit |-> unit, raised |-> resp.raised, out |-> out]

\* sys.exit(1)
Abort ==
  /\ pc' = "done"
  /\ exit_code' = 1

\* mutant of FetchSchedule: a raising fetch ends the loop
FetchSchedule_StopOnRaise ==
  /\ pc = "schedules"
  /\ k <= Len(MLB_TEAMS)
  /\ \E resp \in SchedAnswers(MLB_TEAMS[k]) :
       LET s == get_team_schedule(MLB_TEAMS[k], resp)
       IN /\ sched_list' = Collect(sched_list, s)
          /\ trace' = Append(trace, Call(MLB_TEAMS[k], resp, s))
          /\ k' = IF resp.raised THEN Len(MLB_TEAMS) + 1 ELSE k + 1
  /\ UNCHANGED <<pc, sched, roster_list, roster, logs_list, games, panel,
                 exit_code, outfile, writes, player_name, lookup, slug>>

\* lines 156-160, one pass of the loop
FetchSchedule ==
  /\ pc = "schedules"
  /\ k <= Len(MLB_TEAMS)
  /\ \E resp \in SchedAnswers(MLB_TEAMS[k]) :
       LET s == get_team_schedule(MLB_TEAMS[k], resp)
       IN /\ sched_list' = Collect(sched_list, s)
          /\ trace' = Append(trace, Call(MLB_TEAMS[k], resp, s))
  /\ k' = k + 1
  /\ UNCHANGED <<pc, sched, roster_list, roster, logs_list, games, panel,
                 exit_code, outfile, writes, player_name, lookup, slug>>

\* lines 161-163
AbortNoSchedules ==
  /\ pc = "schedules"
  /\ k > Len(MLB_TEAMS)
  /\ sched_list = <<>>
  /\ Abort
  /\ UNCHANGED <<k, sched_list, sched, roster_list, roster, logs_list, games,
                 panel, outfile, writes, trace, player_name, lookup, slug>>

\* line 164
ConcatSchedules ==
  /\ pc = "schedules"
  /\ k > Len(MLB_TEAMS)
  /\ sched_list # <<>>
  /\ sched' = DropDuplicates(Concat(sched_list))
  /\ pc' = "rosters"
  /\ k' = 1
  /\ trace' = <<>>
  /\ UNCHANGED <<sched_list, roster_list, roster, logs_list, games, panel,
                 exit_code, outfile, writes, player_name, lookup, slug>>

\* lines 169-173, one pass of the loop
FetchBatters ==
  /\ pc = "rosters"
  /\ k <= Len(MLB_TEAMS)
  /\ \E resp \in BattingAnswers :
       LET tb == get_top_batters(MLB_TEAMS[k], resp, TOP_N_BATTERS_PER_TEAM)
       IN /\ roster_list' = Collect(roster_list, tb)
          /\ trace' = Append(trace, Call(MLB_TEAMS[k], resp, tb))
  /\ k' = k + 1
  /\ UNCHANGED <<pc, sched_list, sched, roster, logs_list, games, panel,
                 exit_code, outfile, writes, player_name, lookup, slug>>

\* lines 174-176
AbortNoRoster ==
  /\ pc = "rosters"
  /\ k > Len(MLB_TEAMS)
  /\ roster_list = <<>>
  /\ Abort
  /\ UNCHANGED <<k, sched_list, sched, roster_list, roster, logs_list, games,
                 panel, outfile, writes, trace, player_name, lookup, slug>>

\* lines 177-178
ConcatRoster ==
  /\ pc = "rosters"
  /\ k > Len(MLB_TEAMS)
  /\ roster_list # <<>>
  /\ roster' = DropDuplicatesBy(Concat(roster_list),
                                Project(Concat(roster_list),
                                        {"player_name", "team_code"}))
  /\ pc' = "resolve"
  /\ k' = 1
  /\ trace' = <<>>
  /\ UNCHANGED <<sched_list, sched, roster_list, logs_list, games, panel,
                 exit_code, outfile, writes, player_name, lookup, slug>>

\* line 182, the call that apply() makes for row k
ResolveRow ==
  /\ pc = "resolve"
  /\ k <= Len(roster)
  /\ \E resp \in LookupAnswersMain :
       roster' = [roster EXCEPT ![k] =
                    @ @@ [player_id_bbref |-> name_to_bbref_id(@.player_name, resp)]]
  /\ k' = k + 1
  /\ UNCHANGED <<pc, sched_list, sched, roster_list, logs_list, games, panel,
                 exit_code, outfile, writes, trace, player_name, lookup, slug>>

\* mutant of Resolved: the unresolved rows stay
Resolved_KeepAll(r) == r

\* line 183: roster[roster["player_id_bbref"].astype(bool)]
Resolved(r) == SelectSeq(r, LAMBDA row : row.player_id_bbref # "")

FilterResolved ==
  /\ pc = "resolve"
  /\ k > Len(roster)
  /\ roster' = Resolved(roster)
  /\ pc' = "logs"
  /\ k' = 1
  /\ UNCHANGED <<sched_list, sched, roster_list, logs_list, games, panel,
                 exit_code, outfile, writes, trace, player_name, lookup, slug>>

\* roster["player_id_bbref"].unique()
UniqueIds(r) == DropDuplicates([i \in 1..Len(r) |-> r[i].player_id_bbref])

\* lines 189-193, one pass of the loop
FetchLogs ==
  /\ pc = "logs"
  /\ k <= Len(UniqueIds(roster))
  /\ \E resp \in LogAnswersMain :
       LET g == fetch_player_game_logs_bbref(UniqueIds(roster)[k], resp)
       IN /\ logs_list' = Collect(logs_list, g)
          /\ trace' = Append(trace, Call(UniqueIds(roster)[k], resp, g))
  /\ k' = k + 1
  /\ UNCHANGED <<pc, sched_list, sched, roster_list, roster, games, panel,
                 exit_code, outfile, writes, player_name, lookup, slug>>

\* mutant of AbortNoLogs: the emptiness check is missing
AbortNoLogs_Missing ==
  /\ pc = "logs"
  /\ k > Len(DropDuplicates([i \in 1..Len(roster) |-> roster[i].player_id_bbref]))
  /\ logs_list = <<>>
  /\ games' = <<>>
  /\ pc' = "infer"
  /\ UNCHANGED <<k, sched_list, sched, roster_list, roster, logs_list, panel,
                 exit_code, outfile, writes, trace, player_name, lookup, slug>>

\* lines 194-196
AbortNoLogs ==
  /\ pc = "logs"
  /\ k > Len(UniqueIds(roster))
  /\ logs_list = <<>>
  /\ Abort
  /\ UNCHANGED <<k, sched_list, sched, roster_list, roster, logs_list, games,
                 panel, outfile, writes, trace, player_name, lookup, slug>>

\* line 197
ConcatLogs ==
  /\ pc = "logs"
  /\ k > Len(UniqueIds(roster))
  /\ logs_list # <<>>
  /\ games' = Concat(logs_list)
  /\ pc' = "infer"
  /\ UNCHANGED <<k, sched_list, sched, roster_list, roster, logs_list, panel,
                 exit_code, outfile, writes, trace, player_name, lookup, slug>>

\* lines 202-215
Infer ==
  /\ pc = "infer"
  /\ panel' = InferRest(games, sched)
  /\ pc' = "injuries"
  /\ UNCHANGED <<k, sched_list, sched, roster_list, roster, logs_list, games,
                 exit_code, outfile, writes, trace, player_name, lookup, slug>>

PanelRest ==
  <<k, sched_list, sched, roster_list, roster, logs_list, games,
    exit_code, outfile, writes, trace, player_name, lookup, slug>>

\* lines 227-229
Covariates ==
  /\ pc = "covariates"
  /\ panel' = FatigueCovariates(panel)
  /\ pc' = "perf"
  /\ UNCHANGED PanelRest

\* lines 232-237
JoinPA ==
  /\ pc = "perf"
  /\ panel' = AttachPA(panel, games)
  /\ pc' = "write"
  /\ UNCHANGED PanelRest

\* lines 239-240 and the return of main()
WriteCsv ==
  /\ pc = "write"
  /\ outfile' = panel
  /\ writes' = writes + 1
  /\ exit_code' = 0
  /\ pc' = "done"
  /\ UNCHANGED <<k, sched_list, sched, roster_list, roster, logs_list, games,
                 panel, trace, player_name, lookup, slug>>

\* lines 218-224, with the injury file drawn from files
MergeInjuries(files) ==
  /\ pc = "injuries"
  /\ \E file \in files : panel' = MergeIL(panel, file)
  /\ pc' = "covariates"
  /\ UNCHANGED PanelRest

Injuries == MergeInjuries(InjuryFilesMain)

Next ==
  \/ FetchSchedule \/ AbortNoSchedules \/ ConcatSchedules
  \/ FetchBatters \/ AbortNoRoster \/ ConcatRoster
  \/ ResolveRow \/ FilterResolved
  \/ FetchLogs \/ AbortNoLogs \/ ConcatLogs
  \/ Infer \/ Injuries \/ Covariates \/ JoinPA \/ WriteCsv

Spec == Init /\ [][Next]_vars

-----------------------------------------------------------------------------
(* Step 5 onwards, from every state in which lines 149-197 can leave       *)
(* main() for a roster of two resolved players, with schedules, game logs  *)
(* and injury files drawn from all small tables rather than from a few.    *)

SeqsUpTo(S, n) == UNION {[1..m -> S] : m \in 0..n}

PanelIds == <<"doej01", "roeal01">>
PanelRoster ==
  <<[player_name |-> JaneDoe, PA |-> 2, team_code |-> "ARI"],
    [player_name |-> AlRoe, PA |-> 1, team_code |-> "ARI"]>>

\* a season schedule lists its games in date order, a date possibly twice
PanelSchedAnswers(code) ==
  {Table([i \in 1..Len(ds) |-> SchedRow(code, <<ds[i]>>)]) :
     ds \in {x \in SeqsUpTo(Dates, MaxSchedRows) :
               \A i \in 1..(Len(x) - 1) : x[i] <= x[i+1]}}

LogTeams == {"ARI", "ATL"}
Opps == {"ARI", "ATL"}
PAValues == {NaN, 3}
PanelLogRows ==
  {LogRow(<<d>>, t, o, pa) : d \in Dates, t \in LogTeams, o \in Opps, pa \in PAValues}
PanelLogAnswers == {Logs(TRUE, rows) : rows \in SeqsUpTo(PanelLogRows, MaxGameRows)}

InjuryFilesPanel ==
  {NoInjuryFile} \cup
  {InjuryFile(rows) :
     rows \in SeqsUpTo({InjRow(PanelIds[i], d, f) :
                          i \in 1..Len(PanelIds),
                          d \in {<<x>> : x \in Dates} \cup {<<Junk>>},
                          f \in {0, 1}},
                       MaxInjRows)}

InitPanel ==
  /\ pc = "infer"
  /\ \E sa \in [1..Len(MLB_TEAMS) -> UNION {PanelSchedAnswers(MLB_TEAMS[i]) :
                                             i \in 1..Len(MLB_TEAMS)}] :
       /\ \A i \in 1..Len(MLB_TEAMS) : sa[i] \in PanelSchedAnswers(MLB_TEAMS[i])
       /\ sched_list = SelectSeq([i \in 1..Len(MLB_TEAMS) |->
                                    get_team_schedule(MLB_TEAMS[i], sa[i])],
                                 LAMBDA t : t # <<>>)
  /\ sched_list # <<>>
  /\ sched = DropDuplicates(Concat(sched_list))
  /\ roster_list = <<PanelRoster>>
  /\ roster = [i \in 1..Len(PanelRoster) |->
                 PanelRoster[i] @@ [player_id_bbref |-> PanelIds[i]]]
  /\ \E la \in [1..Len(PanelIds) -> PanelLogAnswers] :
       /\ Len(la[1].rows) + Len(la[2].rows) <= MaxGameRows
       /\ trace = [i \in 1..Len(PanelIds) |->
                     Call(PanelIds[i], la[i],
                          fetch_player_game_logs_bbref(PanelIds[i], la[i]))]
  /\ logs_list = SelectSeq([i \in 1..Len(trace) |-> trace[i].out],
                           LAMBDA t : t # <<>>)
  /\ logs_list # <<>>
  /\ games = Concat(logs_list)
  /\ k = Len(PanelIds) + 1
  /\ panel = <<>>
  /\ exit_code = Running
  /\ outfile = <<>>
  /\ writes = 0
  /\ player_name = <<>>
  /\ lookup = LookupRaise
  /\ slug = ""

InjuriesPanel == MergeInjuries(InjuryFilesPanel)

NextPanel == Infer \/ InjuriesPanel \/ Covariates \/ JoinPA \/ WriteCsv

SpecPanel == InitPanel /\ [][NextPanel]_vars

-----------------------------------------------------------------------------
(* name_to_bbref_id on its own: every name and every lookup answer *)

ResolveNames == {JaneDoe, Cher, <<"Al", " ", "B", " ", "Roe">>, <<>>}

CandRows ==
  {Cand(key, first, last) : key \in {"doej01", "roeal01", NoKey},
                            first \in Seasons \cup {NaN},
                            last \in Seasons \cup {NaN}}

\* without the season columns no row has a season value
LookupTable(hs) ==
  {[raised |-> FALSE, hasSeasons |-> hs, rows |-> rows] :
     rows \in {x \in SeqsUpTo(CandRows, MaxCands) :
                 \A i \in 1..Len(x) :
                   ~hs => /\ x[i].mlb_played_last = NaN
                          /\ x[i].mlb_played_first = NaN}}

LookupAnswers == {LookupRaise} \cup LookupTable(TRUE) \cup LookupTable(FALSE)

InitResolve ==
  /\ pc = "lookup"
  /\ player_name \in ResolveNames
  /\ lookup \in LookupAnswers
  /\ slug = ""
  /\ k = 1
  /\ sched_list = <<>>
  /\ sched = <<>>
  /\ roster_list = <<>>
  /\ roster = <<>>
  /\ logs_list = <<>>
  /\ games = <<>>
  /\ panel = <<>>
  /\ exit_code = Running
  /\ outfile = <<>>
  /\ writes = 0
  /\ trace = <<>>

\* lines 84-104, one call
ResolveName ==
  /\ pc = "lookup"
  /\ slug' = name_to_bbref_id(player_name, lookup)
  /\ pc' = "resolved"
  /\ UNCHANGED <<k, sched_list, sched, roster_list, roster, logs_list, games,
                 panel, exit_code, outfile, writes, trace, player_name, lookup>>

NextResolve == ResolveName

SpecResolve == InitResolve /\ [][NextResolve]_vars

-----------------------------------------------------------------------------
(* Properties *)

Range(s) == {s[i] : i \in 1..Len(s)}

\* the panel has been through the injury step
AfterInjuries == pc \in {"covariates", "perf", "write", "done"}
\* the panel exists
AfterInfer == pc \in {"injuries", "covariates", "perf", "write", "done"}
Written == pc = "done" /\ writes > 0

RestIff(r) ==
  (r.rest_flag = 1) <=> (r.team_played = 1 /\ r.appeared = 0 /\ r.on_IL = 0)

\* C1: after the injury step, with or without an injury file, and in the
\* written file, every row has rest_flag = 1 exactly when team_played = 1,
\* appeared = 0 and on_IL = 0 (so a rest row matched by an on_IL = 1 record
\* ends with rest_flag = 0).
C1_RestFlagIff ==
  /\ AfterInjuries =>
       \A i \in 1..Len(panel) : panel[i].rest_flag \in {0, 1} /\ RestIff(panel[i])
  /\ Written =>
       \A i \in 1..Len(outfile) : outfile[i].rest_flag \in {0, 1} /\ RestIff(outfile[i])

\* a written row the team played, the player missed, and the injury file
\* marks on_IL = 1: its rest flag of 1 was forced to 0
C1_Witness ==
  /\ Written
  /\ \E i \in 1..Len(outfile) :
       /\ outfile[i].team_played = 1 /\ outfile[i].appeared = 0
       /\ outfile[i].on_IL = 1 /\ outfile[i].rest_flag = 0
  /\ \E i \in 1..Len(outfile) : outfile[i].rest_flag = 1

\* C2: a finished run has exit code 1 and no output file when the schedule
\* stage, the batting stage or the game-log stage collected nothing, and has
\* exit code 0 with the file written exactly once otherwise; a running
\* process has written nothing.
C2_TerminalOutcome ==
  /\ pc = "done" =>
       IF sched_list = <<>> \/ roster_list = <<>> \/ logs_list = <<>>
       THEN exit_code = 1 /\ writes = 0 /\ outfile = <<>>
       ELSE exit_code = 0 /\ writes = 1
  /\ pc # "done" => exit_code = Running /\ writes = 0
  /\ pc \in {"infer", "injuries", "covariates", "perf", "write"} =>
       sched_list # <<>> /\ roster_list # <<>> /\ logs_list # <<>>

\* the run aborted although both team stages collected rows: no roster
\* player resolved to an identifier
C2_Witness ==
  /\ pc = "done" /\ exit_code = 1 /\ writes = 0
  /\ sched_list # <<>> /\ roster_list # <<>>
  /\ roster = <<>> /\ trace = <<>>

\* the loop whose calls trace holds, and the units of work of that loop
TraceStage ==
  IF pc \in {"schedules", "rosters", "logs"} THEN pc
  ELSE IF pc = "resolve" THEN "none"
  ELSE IF sched_list = <<>> THEN "schedules"
  ELSE IF roster_list = <<>> THEN "rosters"
  ELSE "logs"
TraceUnits ==
  IF TraceStage = "logs" THEN UniqueIds(roster)
  ELSE IF TraceStage = "none" THEN <<>> ELSE MLB_TEAMS
TraceList ==
  IF TraceStage = "schedules" THEN sched_list
  ELSE IF TraceStage = "rosters" THEN roster_list
  ELSE IF TraceStage = "logs" THEN logs_list ELSE <<>>
RowUnit(r) ==
  IF TraceStage = "logs" THEN r.player_id_bbref ELSE r.team_code
LoopRunning == pc \in {"schedules", "rosters", "logs"} /\ k <= Len(TraceUnits)

\* C3: in each of the three fetch loops the units are fetched once each in
\* list order whatever raised before, the loop is left only after the last
\* unit, a unit whose fetch raised has no row in the accumulated list, and
\* the list is what the answers give with an empty table for every raise.
C3_FailureIsEmptyContribution ==
  /\ Len(trace) <= Len(TraceUnits)
  /\ \A i \in 1..Len(trace) : trace[i].unit = TraceUnits[i]
  /\ LoopRunning => Len(trace) = k - 1
  /\ ~LoopRunning => Len(trace) = Len(TraceUnits)
  /\ \A i \in 1..Len(trace) :
       trace[i].raised =>
         \A j \in 1..Len(TraceList) : \A r \in Range(TraceList[j]) :
           RowUnit(r) # trace[i].unit
  /\ TraceList = SelectSeq([i \in 1..Len(trace) |->
                              IF trace[i].raised THEN <<>> ELSE trace[i].out],
                           LAMBDA t : t # <<>>)

\* the first team's schedule fetch raised, the second team's was still made
\* and its rows are the whole accumulated list
C3_Witness ==
  /\ pc = "schedules" /\ k > Len(MLB_TEAMS)
  /\ trace[1].raised /\ ~trace[2].raised
  /\ sched_list = <<trace[2].out>>

\* the log-fetch loop has started
InLogs ==
  \/ pc \in {"logs", "infer", "injuries", "covariates", "perf", "write"}
  \/ pc = "done" /\ sched_list # <<>> /\ roster_list # <<>>

\* C7: when the log-fetch loop starts no roster row has an empty identifier,
\* no call of the loop is for the empty identifier, no identifier is fetched
\* twice, and after the loop the fetched identifiers are exactly the
\* identifiers of the roster.
C7_OnlyResolvedFetchedOnce ==
  InLogs =>
    /\ \A r \in Range(roster) : r.player_id_bbref # ""
    /\ \A i \in 1..Len(trace) : trace[i].unit # ""
    /\ \A i, j \in 1..Len(trace) : trace[i].unit = trace[j].unit => i = j
    /\ {trace[i].unit : i \in 1..Len(trace)} \subseteq
         {r.player_id_bbref : r \in Range(roster)}
    /\ pc # "logs" =>
         {trace[i].unit : i \in 1..Len(trace)} =
           {r.player_id_bbref : r \in Range(roster)}

\* the loop ended after one fetch for an identifier that rows of both teams
\* carry, and an unresolved roster row had been dropped
C7_Witness ==
  /\ pc = "infer"
  /\ Len(trace) = 1
  /\ \E i, j \in 1..Len(roster) :
       /\ roster[i].team_code # roster[j].team_code
       /\ roster[i].player_id_bbref = roster[j].player_id_bbref
  /\ Len(Concat(roster_list)) > Len(roster)

\* the index of the output row of the same player just above row i, or 0
RowAbove(t, i) ==
  LET same == {j \in 1..(i-1) : t[j].player_id_bbref = t[i].player_id_bbref}
  IN IF same = {} THEN 0 ELSE CHOOSE j \in same : \A h \in same : h <= j

\* C4: in the written file the rows of a player are in strictly increasing
\* date order, days_since_last_game is the day difference to the player's
\* row just above, and it is null exactly on the player's first row.
C4_StrictOrderAndGap ==
  Written =>
    \A i \in 1..Len(outfile) :
      IF RowAbove(outfile, i) = 0
      THEN outfile[i].days_since_last_game = NaN
      ELSE /\ outfile[RowAbove(outfile, i)].game_date < outfile[i].game_date
           /\ outfile[i].days_since_last_game # NaN
           /\ outfile[i].days_since_last_game =
                outfile[i].game_date - outfile[RowAbove(outfile, i)].game_date

\* C5: in the written file prev_day_was_rest is the rest_flag of the
\* player's row just above, and 0 on the player's first row.
C5_PrevRestIsRowAbove ==
  Written =>
    \A i \in 1..Len(outfile) :
      outfile[i].prev_day_was_rest =
        IF RowAbove(outfile, i) = 0 THEN 0
        ELSE outfile[RowAbove(outfile, i)].rest_flag

\* C6: the written file has at most one row per (player_id, team, game_date).
C6_OneRowPerKey ==
  Written =>
    \A i, j \in 1..Len(outfile) :
      ( /\ outfile[i].player_id_bbref = outfile[j].player_id_bbref
        /\ outfile[i].team = outfile[j].team
        /\ outfile[i].game_date = outfile[j].game_date ) => i = j

Keys(t) == {<<t[i].player_id_bbref, t[i].team, t[i].game_date>> : i \in 1..Len(t)}
Membership == {<<g.player_id_bbref, g.team>> : g \in Range(games)}
Played == {<<r.team, r.game_date>> : r \in Range(sched)}
JoinKeys ==
  UNION {{<<m[1], m[2], q[2]>> : q \in {x \in Played : x[1] = m[2]}} : m \in Membership}

\* C8: the keys (player_id, team, game_date) of the panel, at every step from
\* its creation on and in the written file, are exactly the pairs of a
\* (player_id, team) of the game logs with a date on which the collected
\* schedule has that team playing.
C8_KeysAreMembershipJoin ==
  /\ AfterInfer => Keys(panel) = JoinKeys
  /\ Written => Keys(outfile) = JoinKeys

\* a file with rows was written although the logs name a (player, team)
\* whose team has no schedule row
C8_Witness ==
  /\ Written
  /\ outfile # <<>>
  /\ \E m \in Membership : \A q \in Played : q[1] # m[2]

Logged(id, date) ==
  \E g \in Range(games) : g.player_id_bbref = id /\ g.game_date = date

\* C9: a panel row has appeared = 1 when the game logs hold an entry of its
\* player on its date, whatever the team of the entry, and appeared = 0
\* otherwise.
C9_AppearedIffLogged ==
  /\ AfterInfer =>
       \A r \in Range(panel) :
         r.appeared = IF Logged(r.player_id_bbref, r.game_date) THEN 1 ELSE 0
  /\ Written =>
       \A r \in Range(outfile) :
         r.appeared = IF Logged(r.player_id_bbref, r.game_date) THEN 1 ELSE 0

\* a player of two teams that both played on a date has appeared = 1 on both
\* rows of that date, though no log entry of that date is for the second team
C9_Witness ==
  /\ Written
  /\ \E r1, r2 \in Range(outfile) :
       /\ r1.player_id_bbref = r2.player_id_bbref
       /\ r1.game_date = r2.game_date
       /\ r1.team # r2.team
       /\ r1.appeared = 1 /\ r2.appeared = 1
       /\ \A g \in Range(games) :
            (g.player_id_bbref = r2.player_id_bbref /\ g.game_date = r2.game_date)
              => g.team # r2.team

Better(a, b) ==
  \/ a.mlb_played_last > b.mlb_played_last
  \/ (a.mlb_played_last = b.mlb_played_last
        /\ a.mlb_played_first > b.mlb_played_first)

NoCandidate ==
  \/ Len(SelectSeq(player_name, LAMBDA c : c # " ")) < 2
  \/ lookup.raised
  \/ lookup.rows = <<>>

\* C10 as claimed: the result is empty for a name of fewer than two tokens,
\* an empty lookup or a raising lookup, and otherwise it is the identifier
\* (empty when missing) of a candidate that no candidate beats on
\* (last-active, first-active).
C10_BestCandidate ==
  pc = "resolved" =>
    IF NoCandidate THEN slug = ""
    ELSE \E i \in 1..Len(lookup.rows) :
           /\ \A j \in 1..Len(lookup.rows) : ~Better(lookup.rows[j], lookup.rows[i])
           /\ slug = IF lookup.rows[i].key_bbref = NoKey THEN ""
                     ELSE lookup.rows[i].key_bbref

Keyed == {i \in 1..Len(lookup.rows) : lookup.rows[i].key_bbref # NoKey}

\* C10 as amended: the candidates without an identifier are left out before
\* the best is taken, and the result is empty when none is left; a missing
\* season ranks below every season.
C10_BestKeyedCandidate ==
  pc = "resolved" =>
    IF NoCandidate \/ Keyed = {} THEN slug = ""
    ELSE \E i \in Keyed :
           /\ \A j \in Keyed : ~Better(lookup.rows[j], lookup.rows[i])
           /\ slug = lookup.rows[i].key_bbref

\* two candidates, the more recent one without identifier: the identifier of
\* the other one is returned
C10_Witness ==
  /\ pc = "resolved"
  /\ ~NoCandidate
  /\ lookup.hasSeasons
  /\ Len(lookup.rows) = 2
  /\ lookup.rows[1].key_bbref = NoKey
  /\ Better(lookup.rows[1], lookup.rows[2])
  /\ slug = lookup.rows[2].key_bbref
  /\ slug # NoKey

====
